---- MODULE Spec2Model ----
(***************************************************************************)
(* A model of package netx (getlantern/netx).                              *)
(*                                                                         *)
(* src/netx.go holds two revisions of the package.  The model carries     *)
(* both, selected by the variable `variant`:                               *)
(*   "lazy"  - lines 1-158: the NAT64 prefix is looked up on the dial     *)
(*             path by getNAT64Prefix and kept for an hour; every dial     *)
(*             entry point retries after a "network is unreachable" error  *)
(*             with the converted address.                                 *)
(*   "fresh" - lines 160-331: a background goroutine                       *)
(*             (keepNAT64PrefixFresh) refreshes the prefix every second;   *)
(*             DialContext converts the address before its only attempt.   *)
(*                                                                         *)
(* Address strings are modelled as sequences of lexical tokens (numeric    *)
(* fields, punctuation, name labels); IP addresses as sequences of bytes.  *)
(***************************************************************************)
EXTENDS Integers, Sequences, FiniteSets, TLC

(***************************************************************************)
(* Text: tokens of an address string.                                      *)
(***************************************************************************)
N(v) == [k |-> "num", n |-> v, s |-> ""]

P(c) == [k |-> "pun", n |-> 0, s |-> c]

W(w) == [k |-> "word", n |-> 0, s |-> w]

IsNum(t) == t.k = "num"

\* the tokens that hold a ':' character
Colons == {P(":"), P("::")}

Idx(s) == 1..Len(s)

\* positions of the tokens of s that are among toks
Positions(s, toks) == {i \in Idx(s) : s[i] \in toks}

MinOf(S) == CHOOSE x \in S : \A y \in S : x <= y

MaxOf(S) == CHOOSE x \in S : \A y \in S : x >= y

Slice(s, from, to) == IF from > to THEN <<>> ELSE SubSeq(s, from, to)

(***************************************************************************)
(* package net: the functions the package calls.                           *)
(***************************************************************************)
NoIP == <<>>

Zeros(n) == [i \in 1..n |-> 0]

isZeros(b) == \A i \in Idx(b) : b[i] = 0

\* net.IPv4(a, b, c, d): the 16-byte IPv4-mapped form
IPv4(a, b, c, d) == Zeros(10) \o <<255, 255, a, b, c, d>>

\* IP.To4: the 4-byte form of an IPv4 address, nil otherwise
To4(ip) ==
  IF Len(ip) = 4 THEN ip
  ELSE IF Len(ip) = 16 /\ isZeros(SubSeq(ip, 1, 10)) /\ ip[11] = 255 /\ ip[12] = 255
       THEN SubSeq(ip, 13, 16)
       ELSE NoIP

\* IP.To16
To16(ip) ==
  IF Len(ip) = 4 THEN IPv4(ip[1], ip[2], ip[3], ip[4])
  ELSE IF Len(ip) = 16 THEN ip
       ELSE NoIP

\* parseIPv4: four decimal fields of at most 255, separated by dots
IsDottedQuad(h) ==
  /\ Len(h) = 7
  /\ \A i \in {1, 3, 5, 7} : IsNum(h[i]) /\ h[i].n <= 255
  /\ \A i \in {2, 4, 6} : h[i] = P(".")

parseIPv4(h) == IF IsDottedQuad(h) THEN IPv4(h[1].n, h[3].n, h[5].n, h[7].n) ELSE NoIP

GroupBytes(g) == <<g \div 256, g % 256>>

\* A run of hex groups separated by ':', optionally ending in a dotted quad
\* (parseIPv6's loop body).  Yields the bytes, or <<-1>> when malformed.
RECURSIVE GroupRun(_)
GroupRun(h) ==
  IF h = <<>> THEN <<>>
  ELSE IF IsDottedQuad(h) THEN <<h[1].n, h[3].n, h[5].n, h[7].n>>
  ELSE IF ~IsNum(h[1]) \/ h[1].n > 65535 THEN <<-1>>
  ELSE IF Len(h) = 1 THEN GroupBytes(h[1].n)
  ELSE IF h[2] # P(":") \/ Len(h) = 2 THEN <<-1>>
  ELSE LET rest == GroupRun(Slice(h, 3, Len(h)))
       IN  IF rest = <<-1>> THEN <<-1>> ELSE GroupBytes(h[1].n) \o rest

\* parseIPv6: groups with at most one "::", which stands for at least one
\* zero group
parseIPv6(h) ==
  LET ell == Positions(h, {P("::")})
  IN  IF Cardinality(ell) > 1 THEN NoIP
      ELSE IF ell = {}
      THEN LET b == GroupRun(h) IN IF Len(b) = 16 THEN b ELSE NoIP
      ELSE LET e     == MinOf(ell)
               lhs   == Slice(h, 1, e - 1)
               left  == GroupRun(lhs)
               right == GroupRun(Slice(h, e + 1, Len(h)))
           IN  IF left = <<-1>> \/ right = <<-1>> \/ Len(left) + Len(right) > 14
               THEN NoIP
               ELSE IF Positions(lhs, {P(".")}) # {} THEN NoIP
               ELSE left \o Zeros(16 - Len(left) - Len(right)) \o right

\* net.ParseIP: IPv4 when the first separator is a dot, IPv6 when it is a colon
ParseIP(h) ==
  LET seps == Positions(h, Colons \cup {P(".")})
  IN  IF seps = {} THEN NoIP
      ELSE IF h[MinOf(seps)] = P(".") THEN parseIPv4(h)
      ELSE parseIPv6(h)

Group(ip, g) == ip[2 * g - 1] * 256 + ip[2 * g]

\* the zero groups starting at group g
RECURSIVE ZeroRun(_, _)
ZeroRun(ip, g) == IF g > 8 \/ Group(ip, g) # 0 THEN 0 ELSE 1 + ZeroRun(ip, g + 1)

\* IP.String's search: the first longest run of zero groups, of length >= 2
\* (<<0, 0>> when there is none), as <<first group, length>>
LongestZeroRun(ip) ==
  LET best == MaxOf({ZeroRun(ip, g) : g \in 1..8})
  IN  IF best < 2 THEN <<0, 0>>
      ELSE <<MinOf({g \in 1..8 : ZeroRun(ip, g) = best /\ (g = 1 \/ Group(ip, g - 1) # 0)}), best>>

RECURSIVE HexGroups(_, _, _)
HexGroups(ip, from, to) ==
  IF from > to THEN <<>>
  ELSE IF from = to THEN <<N(Group(ip, from))>>
  ELSE <<N(Group(ip, from)), P(":")>> \o HexGroups(ip, from + 1, to)

\* IP.String: dotted decimal when To4 applies, else hex groups with the
\* longest zero run written "::"
IPString(ip) ==
  IF Len(ip) = 0 THEN <<W("<nil>")>>
  ELSE IF To4(ip) # NoIP
  THEN LET p == To4(ip) IN <<N(p[1]), P("."), N(p[2]), P("."), N(p[3]), P("."), N(p[4])>>
  ELSE IF Len(ip) # 16 THEN <<W("?")>>
  ELSE LET r == LongestZeroRun(ip)
       IN  IF r[2] = 0 THEN HexGroups(ip, 1, 8)
           ELSE HexGroups(ip, 1, r[1] - 1) \o <<P("::")>> \o HexGroups(ip, r[1] + r[2], 8)

\* net.SplitHostPort.  The port starts after the last colon; a host in
\* brackets ends with the ']' just before that colon; a bare host holds no
\* colon.
SplitHostPort(a) ==
  LET colons == Positions(a, Colons)
      fail   == [err |-> TRUE, host |-> <<>>, port |-> <<>>]
  IN  IF colons = {} THEN fail
      ELSE LET i == MaxOf(colons)
           IN  IF a[1] = P("[")
               THEN LET ends == Positions(a, {P("]")})
                    IN  IF ends = {} THEN fail
                        ELSE LET end == MinOf(ends)
                             IN  IF end + 1 # i \/ a[i] # P(":") THEN fail
                                 ELSE IF Positions(Slice(a, 2, Len(a)), {P("[")}) # {} THEN fail
                                 ELSE IF Positions(Slice(a, end + 1, Len(a)), {P("]")}) # {} THEN fail
                                 ELSE [err |-> FALSE, host |-> Slice(a, 2, end - 1),
                                       port |-> Slice(a, i + 1, Len(a))]
               ELSE IF a[i] # P(":") \/ Cardinality(colons) > 1 THEN fail
               ELSE IF Positions(a, {P("[")}) # {} \/ Positions(a, {P("]")}) # {} THEN fail
               ELSE [err |-> FALSE, host |-> Slice(a, 1, i - 1), port |-> Slice(a, i + 1, Len(a))]

\* net.JoinHostPort: a host that holds a colon is put in brackets
JoinHostPort(host, port) ==
  IF Positions(host, Colons) # {}
  THEN <<P("[")>> \o host \o <<P("]"), P(":")>> \o port
  ELSE host \o <<P(":")>> \o port

\* copy(dst[:n], src): the first min(n, Len(src)) bytes of dst overwritten
CopyPrefix(dst, n, src) ==
  [i \in Idx(dst) |-> IF i <= n /\ i <= Len(src) THEN src[i] ELSE dst[i]]

(***************************************************************************)
(* Sample data: the inputs the operations are applied to.                  *)
(***************************************************************************)
V4Text(a, b, c, d) == <<N(a), P("."), N(b), P("."), N(c), P("."), N(d)>>

HostPort(h, p) == h \o <<P(":"), N(p)>>

Bracketed(h, p) == <<P("[")>> \o h \o <<P("]"), P(":"), N(p)>>

PublicAddrs == {HostPort(V4Text(93, 184, 216, 34), 80), HostPort(V4Text(1, 0, 0, 1), 443)}

PrivateAddrs ==
  {HostPort(V4Text(10, 0, 0, 1), 80), HostPort(V4Text(172, 16, 0, 5), 22),
   HostPort(V4Text(192, 168, 1, 10), 8080), HostPort(V4Text(127, 0, 0, 1), 8080),
   HostPort(V4Text(169, 254, 1, 1), 80)}

IPv6Addrs ==
  {Bracketed(<<N(8193), P(":"), N(3512), P("::"), N(1)>>, 443),
   Bracketed(<<N(8193), P(":"), N(3512), P(":"), N(0), P(":"), N(0), P(":"), N(0), P(":"),
               N(0), P(":"), N(0), P(":"), N(1)>>, 443),
   Bracketed(<<P("::"), N(1)>>, 80),
   Bracketed(<<P("::"), N(65535), P(":")>> \o V4Text(1, 2, 3, 4), 80),
   Bracketed(<<P("::"), N(65535), P(":"), N(258), P(":"), N(772)>>, 80)}

NameAddrs ==
  {<<W("example"), P("."), W("com"), P(":"), N(80)>>, <<W("localhost"), P(":"), N(999)>>,
   HostPort(V4Text(300, 1, 1, 1), 80)}

MalformedAddrs ==
  {<<>>, V4Text(93, 184, 216, 34), <<P("["), P("::"), N(1), P("]")>>, <<P("::"), N(1)>>,
   <<P("["), N(1), P("."), N(2), P(":"), N(80)>>}

Addrs == PublicAddrs \cup PrivateAddrs \cup IPv6Addrs \cup NameAddrs \cup MalformedAddrs

\* 64:ff9b::/96, the well-known NAT64 prefix, and a network-specific one
WellKnownPrefix == <<0, 100, 255, 155>> \o Zeros(8)

LocalPrefix == <<32, 1, 13, 184, 0, 100>> \o Zeros(6)

\* the A record of ipv4only.arpa
ProbeV4 == <<192, 0, 0, 170>>

\* what net.LookupIP("ipv4only.arpa") may return
LookupResults ==
  {[err |-> TRUE, ips |-> <<>>],
   [err |-> FALSE, ips |-> <<ProbeV4>>],
   [err |-> FALSE, ips |-> <<IPv4(192, 0, 0, 170)>>],
   [err |-> FALSE, ips |-> <<ProbeV4, WellKnownPrefix \o ProbeV4>>],
   [err |-> FALSE, ips |-> <<LocalPrefix \o ProbeV4, WellKnownPrefix \o ProbeV4>>],
   [err |-> FALSE, ips |-> <<Zeros(12) \o ProbeV4>>]}

(***************************************************************************)
(* The NAT64 prefix cache and the address conversion.                      *)
(***************************************************************************)
NoPrefix == <<>>

NoHolder == [set |-> FALSE, prefix |-> NoPrefix, expiration |-> 0]

\* a loop that goes on after its first find and keeps the last one
ProbePrefix_last(lk) ==
  LET notV4 == {i \in Idx(lk.ips) : To4(lk.ips[i]) = NoIP}
  IN  IF lk.err \/ notV4 = {} THEN NoPrefix
      ELSE SubSeq(lk.ips[MaxOf(notV4)], 1, 12)

\* the loop of updateNAT64Prefix and of getNAT64Prefix: the first 12 bytes of
\* the first address that is not IPv4, NoPrefix when there is none
ProbePrefix(lk) ==
  LET notV4 == {i \in Idx(lk.ips) : To4(lk.ips[i]) = NoIP}
  IN  IF lk.err \/ notV4 = {} THEN NoPrefix
      ELSE SubSeq(lk.ips[MinOf(notV4)], 1, 12)

\* getNAT64Prefix, revision "fresh": the stored value, nil when none is stored
getNAT64Prefix(stored) == stored

\* a getNAT64Prefix that looks the prefix up on every call
getNAT64Prefix_lazy_uncached(h, t, lk) ==
  IF ProbePrefix(lk) # NoPrefix
  THEN [prefix |-> ProbePrefix(lk), looked |-> TRUE,
        holder |-> [set |-> TRUE, prefix |-> ProbePrefix(lk), expiration |-> t + 1]]
  ELSE [prefix |-> NoPrefix, holder |-> h, looked |-> TRUE]

\* a getNAT64Prefix that returns the held prefix whatever its expiration
getNAT64Prefix_lazy_noExpiry(h, t, lk) ==
  IF h.set
  THEN [prefix |-> h.prefix, holder |-> h, looked |-> FALSE]
  ELSE IF ProbePrefix(lk) # NoPrefix
       THEN [prefix |-> ProbePrefix(lk), looked |-> TRUE,
             holder |-> [set |-> TRUE, prefix |-> ProbePrefix(lk), expiration |-> t + 1]]
       ELSE [prefix |-> NoPrefix, holder |-> h, looked |-> TRUE]

\* getNAT64Prefix, revision "lazy": the held prefix while it has not expired;
\* otherwise a lookup, whose prefix is stored for an hour
getNAT64Prefix_lazy(h, t, lk) ==
  IF h.set /\ t < h.expiration
  THEN [prefix |-> h.prefix, holder |-> h, looked |-> FALSE]
  ELSE IF ProbePrefix(lk) # NoPrefix
       THEN [prefix |-> ProbePrefix(lk), looked |-> TRUE,
             holder |-> [set |-> TRUE, prefix |-> ProbePrefix(lk), expiration |-> t + 1]]
       ELSE [prefix |-> NoPrefix, holder |-> h, looked |-> TRUE]

\* convertAddressDNS64 joining host and port by hand, without brackets
convertAddressDNS64_unbracketed(addr, stored) ==
  LET hp     == SplitHostPort(addr)
      ip     == ParseIP(hp.host)
      prefix == getNAT64Prefix(stored)
  IN  IF hp.err THEN addr
      ELSE IF To4(ip) = NoIP THEN addr
      ELSE IF prefix = NoPrefix THEN addr
      ELSE IPString(CopyPrefix(To16(ip), 12, prefix)) \o <<P(":")>> \o hp.port

\* convertAddressDNS64, revision "fresh"
convertAddressDNS64(addr, stored) ==
  LET hp     == SplitHostPort(addr)
      ip     == ParseIP(hp.host)
      prefix == getNAT64Prefix(stored)
  IN  IF hp.err THEN addr
      ELSE IF To4(ip) = NoIP THEN addr
      ELSE IF prefix = NoPrefix THEN addr
      ELSE JoinHostPort(IPString(CopyPrefix(To16(ip), 12, prefix)), hp.port)

\* convertAddressDNS64, revision "lazy": whether it panics, the address it
\* returns, the holder it leaves, whether it looked up, the prefix it got.
\* ip[:12] of a nil ip (a host that is no IP literal) panics.
convertAddressDNS64_lazy(addr, h, t, lk) ==
  LET g   == getNAT64Prefix_lazy(h, t, lk)
      hp  == SplitHostPort(addr)
      ip  == To16(ParseIP(hp.host))
      res == [panic |-> FALSE, addr |-> addr, holder |-> g.holder, looked |-> g.looked,
              prefix |-> g.prefix]
  IN  IF g.prefix = NoPrefix THEN res
      ELSE IF hp.err THEN res
      ELSE IF ip = NoIP THEN [res EXCEPT !.panic = TRUE]
      ELSE [res EXCEPT !.addr = JoinHostPort(IPString(CopyPrefix(ip, 12, g.prefix)), hp.port)]

(***************************************************************************)
(* State.                                                                  *)
(***************************************************************************)
VARIABLES
  variant,      \* the revision of netx.go: "lazy" or "fresh"
  crashed,      \* a goroutine has panicked: the process is gone
  slots,        \* the atomic.Values dial, dialUDP, ...: the function each holds
  stored,       \* history: the functions ever stored into each slot
  reset,        \* the thread running Reset: [pc, by, done, over]
  obs,          \* what the last accessor call (DialUDP, ..., ResolveUDPAddr) saw
  nat64Prefix,  \* revision "fresh": the atomic.Value nat64Prefix
  refresher,    \* revision "fresh": the goroutine keepNAT64PrefixFresh
  holder,       \* revision "lazy": the *NAT64PrefixHolder in NAT64Prefix
  now,          \* the clock, in hours
  call,         \* the thread calling Dial, DialTimeout or DialContext
  tr,           \* the last direct application of convertAddressDNS64
  lookers,      \* the goroutines calling getNAT64Prefix side by side
  probed        \* revision "fresh": ips, err of the last updateNAT64Prefix

vars == <<variant, crashed, slots, stored, reset, obs, nat64Prefix, refresher, holder, now,
          call, tr, lookers, probed>>

Variants == {"lazy", "fresh"}

\* the slots, in the order Reset stores them
Ops == <<"dial", "dialUDP", "listenUDP", "resolveTCPAddr", "resolveUDPAddr">>

OpSet == {Ops[i] : i \in Idx(Ops)}

\* an atomic.Value nothing was stored into: Load returns nil
Nil == "nil"

\* the function Reset stores (net.Dialer.DialContext, net.DialUDP, ...) and
\* one a caller of Override* passes
Default == "default"

Custom == "custom"

NoErr == <<>>

NoConn == "none"

ErrUnreachable == <<"dial", "tcp", "connect:", "network", "is", "unreachable">>

ErrRefused == <<"dial", "tcp", "connect:", "connection", "refused">>

ErrNoNetwork == <<"network", "unreachable">>

Errors == {ErrUnreachable, ErrRefused, ErrNoNetwork}

\* what an implementation may return: (value, nil) or (nil, error)
Outcomes == {[conn |-> "conn", err |-> NoErr]} \cup {[conn |-> NoConn, err |-> e] : e \in Errors}

Networks == {"tcp", "udp"}

NoObs == [op |-> "none", impl |-> Nil, network |-> "", arg |-> <<>>, passed |-> <<>>,
          answer |-> <<>>,
          got |-> [conn |-> NoConn, err |-> NoErr], ret |-> [conn |-> NoConn, err |-> NoErr]]

NoLookup == [err |-> TRUE, ips |-> <<>>]

\* done: has updateNAT64Prefix got an answer yet; lk: the last answer
NoProbe == [done |-> FALSE, lk |-> NoLookup]

\* in, out: the argument and the result; cached: the prefix cached before the
\* call; looked, lk: whether the call looked ipv4only.arpa up, and the answer;
\* wrote: whether the call stored into the cache
NoTr == [called |-> FALSE, in |-> <<>>, out |-> <<>>, panic |-> FALSE, cached |-> NoPrefix,
         looked |-> FALSE, lk |-> NoLookup, wrote |-> FALSE]

(***************************************************************************)
(* The registry: Override*, Reset, and the accessors that only dispatch.   *)
(***************************************************************************)
\* atomic.Value.Store of slot op
Store(op, fn) ==
  /\ slots' = [slots EXCEPT ![op] = fn]
  /\ stored' = [stored EXCEPT ![op] = @ \cup {fn}]

\* callers run before init's Reset has returned
Initialized_early == TRUE

\* the package is initialised: init's Reset has returned
Initialized == reset.by # "init"

\* OverrideDial, OverrideDialUDP, OverrideListenUDP, OverrideResolve,
\* OverrideResolveUDP with a function of the caller's
Override(op) ==
  /\ ~crashed /\ Initialized
  /\ Store(op, Custom)
  /\ reset' = [reset EXCEPT !.over = IF reset.by = "user" THEN @ \cup {op} ELSE @]
  /\ UNCHANGED <<variant, probed, lookers, crashed, obs, nat64Prefix, refresher, holder, now, call, tr>>

\* a Reset that leaves listenUDP as it is
ResetValue_noListen(k) == IF Ops[k] = "listenUDP" THEN slots[Ops[k]] ELSE Default

\* the function the k-th statement of Reset stores
ResetValue(k) == Default

\* a caller starts Reset.  done: the slots this Reset has stored; over: the
\* slots overridden since it began and not stored by it afterwards
ResetBegin ==
  /\ ~crashed /\ Initialized /\ reset.pc = 0
  /\ reset' = [pc |-> 1, by |-> "user", done |-> {}, over |-> {}]
  /\ UNCHANGED <<variant, probed, lookers, crashed, slots, stored, obs, nat64Prefix, refresher, holder, now,
                 call, tr>>

\* one statement of Reset: the Override* call of slot Ops[reset.pc]; after
\* the last one Reset returns
ResetStep ==
  /\ ~crashed /\ reset.pc > 0
  /\ Store(Ops[reset.pc], ResetValue(reset.pc))
  /\ reset' = [reset EXCEPT !.pc = IF reset.pc = Len(Ops) THEN 0 ELSE reset.pc + 1,
                            !.by = IF reset.pc = Len(Ops) THEN "user" ELSE reset.by,
                            !.done = @ \cup {Ops[reset.pc]},
                            !.over = @ \ {Ops[reset.pc]}]
  /\ UNCHANGED <<variant, probed, lookers, crashed, obs, nat64Prefix, refresher, holder, now, call, tr>>

\* an accessor that loads the slot of Dial
Loaded_dial(op) == slots["dial"]

\* what x.Load().(func ...) yields: the function, or a panic on nil
Loaded(op) == slots[op]

\* what an accessor hands to the implementation, and what it returns of the
\* implementation's result
PassThrough(x) == x

\* DialUDP, ListenUDP, Resolve, ResolveUDPAddr: load the slot's function,
\* call it with the arguments, return what it returns
Accessor(op, network, arg, o) ==
  /\ ~crashed /\ Initialized
  /\ IF Loaded(op) = Nil
     THEN /\ crashed' = TRUE
          /\ obs' = [NoObs EXCEPT !.op = op]
     ELSE /\ crashed' = FALSE
          /\ obs' = [op |-> op, impl |-> Loaded(op), network |-> network, arg |-> arg,
                     answer |-> <<>>,
                     passed |-> PassThrough(arg), got |-> o, ret |-> PassThrough(o)]
  /\ UNCHANGED <<variant, probed, lookers, slots, stored, reset, nat64Prefix, refresher, holder, now, call, tr>>

(***************************************************************************)
(* The resolvers Reset installs: net.ResolveTCPAddr, net.ResolveUDPAddr.   *)
(***************************************************************************)
\* the addresses the system resolver knows for localhost
ResolvedIP(name) ==
  IF name = "127.0.0.1" THEN IPv4(127, 0, 0, 1)
  ELSE IF name = "::1" THEN Zeros(15) \o <<1>>
  ELSE NoIP

\* the answers of the system resolver for localhost, in either order
LocalhostAnswers == {<<"127.0.0.1", "::1">>, <<"::1", "127.0.0.1">>}

\* the networks each resolver accepts
ResolveNetworks(op) ==
  IF op = "resolveTCPAddr" THEN {"tcp", "tcp4", "tcp6"} ELSE {"udp", "udp4", "udp6"}

IsV4Name(name) == To4(ResolvedIP(name)) # NoIP

\* a resolver that returns the first address of the answer that suits the family
DefaultResolve_firstAnswer(network, arg, answer) ==
  LET suits == SelectSeq(answer, LAMBDA n :
                 IF network \in {"tcp4", "udp4"} THEN IsV4Name(n)
                 ELSE IF network \in {"tcp6", "udp6"} THEN ~IsV4Name(n)
                 ELSE TRUE)
  IN  IF suits = <<>> THEN [conn |-> NoConn, err |-> <<"no", "suitable", "address", "found">>]
      ELSE [conn |-> suits[1], err |-> NoErr]

\* net.ResolveTCPAddr, net.ResolveUDPAddr on a host name: the answer is
\* filtered by the family the network names (a "4" or "6" at its end); of what
\* is left the first IPv4 address is returned, or the first not IPv4 when the
\* address is a bracketed literal, or else the first address
DefaultResolve(network, arg, answer) ==
  LET suits == SelectSeq(answer, LAMBDA n :
                 IF network \in {"tcp4", "udp4"} THEN IsV4Name(n)
                 ELSE IF network \in {"tcp6", "udp6"} THEN ~IsV4Name(n)
                 ELSE TRUE)
      want6 == network \in {"tcp", "udp"} /\ Positions(arg, {P("[")}) # {}
      pref  == {i \in Idx(suits) : IsV4Name(suits[i]) = ~want6}
  IN  IF suits = <<>> THEN [conn |-> NoConn, err |-> <<"no", "suitable", "address", "found">>]
      ELSE IF pref # {} THEN [conn |-> suits[MinOf(pref)], err |-> NoErr]
      ELSE [conn |-> suits[1], err |-> NoErr]

\* Resolve or ResolveUDPAddr while the slot holds what Reset stored: the
\* system resolver answers, and the default function picks the address
ResolveDefault(op, network, arg, answer) ==
  /\ ~crashed /\ Initialized /\ Loaded(op) = Default
  /\ obs' = [op |-> op, impl |-> Loaded(op), network |-> network, arg |-> arg,
             answer |-> answer, passed |-> PassThrough(arg),
             got |-> DefaultResolve(network, arg, answer),
             ret |-> PassThrough(DefaultResolve(network, arg, answer))]
  /\ UNCHANGED <<variant, probed, lookers, crashed, slots, stored, reset, nat64Prefix, refresher,
                 holder, now, call, tr>>

(***************************************************************************)
(* The dial path: Dial, DialTimeout, DialContext.                          *)
(***************************************************************************)
\* the prefix a reader finds cached: stored (fresh), held and not expired (lazy)
CachedPrefix ==
  IF variant = "fresh" THEN nat64Prefix
  ELSE IF holder.set /\ now < holder.expiration THEN holder.prefix ELSE NoPrefix

\* strings.Contains on the words of a message
Contains(msg, part) ==
  \E i \in 0..(Len(msg) - Len(part)) : SubSeq(msg, i + 1, i + Len(part)) = part

isNetworkUnreachable(err) ==
  err # NoErr /\ Contains(err, <<"network", "is", "unreachable">>)

NoOutcome == [conn |-> NoConn, err |-> NoErr]

\* addrD, addrT, addrC: the variable addr of Dial, DialTimeout, DialContext;
\* tryD, tryT, tryC: which of its (at most two) calls each is making;
\* ctx: the context in use (0 the caller's, k the k-th one DialTimeout made);
\* log: the invocations of the dial function, each with the prefix cached at
\* that moment; outs: what they returned; seen: the prefixes the conversions
\* used; cancels: the contexts cancelled.
IdleCall ==
  [pc |-> "idle", entry |-> "none", network |-> "", arg |-> <<>>,
   addrD |-> <<>>, addrT |-> <<>>, addrC |-> <<>>, tryD |-> 1, tryT |-> 1, tryC |-> 1,
   dialer |-> Nil, loaded |-> <<>>, log |-> <<>>, outs |-> <<>>, seen |-> <<>>,
   ctx |-> 0, nctx |-> 0, cancels |-> <<>>, lookups |-> 0, result |-> NoOutcome]

Entries == {"Dial", "DialTimeout", "DialContext"}

\* the methods that WrapContexted adds to a ContextedDialer
WrapperEntries == {"wrapper.Dial", "wrapper.DialTimeout"}

\* the ContextedDialer that was wrapped
Wrapped == "wrapped"

\* the callers of Dial*: Dial and DialTimeout run DialContext under a context
\* that DialTimeout derives; the revision "fresh" converts first
Call(entry, network, addr) ==
  /\ ~crashed /\ Initialized /\ call.pc \in {"idle", "done"}
  /\ call' = [IdleCall EXCEPT !.pc = IF variant = "fresh" THEN "convert" ELSE "load",
                              !.entry = entry, !.network = network, !.arg = addr,
                              !.addrD = addr, !.addrT = addr, !.addrC = addr,
                              !.ctx = IF entry = "DialContext" THEN 0 ELSE 1,
                              !.nctx = IF entry = "DialContext" THEN 0 ELSE 1]
  /\ UNCHANGED <<variant, probed, lookers, crashed, slots, stored, reset, obs, nat64Prefix, refresher, holder,
                 now, tr>>

\* wrapper.Dial and wrapper.DialTimeout (dialer.go): a context is derived
\* and the wrapped dialer's DialContext is called with it
WrapperCall(entry, network, addr) ==
  /\ ~crashed /\ call.pc \in {"idle", "done"}
  /\ call' = [IdleCall EXCEPT !.pc = "attempt", !.entry = entry, !.network = network,
                              !.arg = addr, !.addrD = addr, !.addrT = addr, !.addrC = addr,
                              !.ctx = 1, !.nctx = 1, !.dialer = Wrapped]
  /\ UNCHANGED <<variant, probed, lookers, crashed, slots, stored, reset, obs, nat64Prefix, refresher,
                 holder, now, tr>>

\* DialContext, revision "fresh", line 270: addr = convertAddressDNS64(addr)
Convert ==
  /\ ~crashed /\ call.pc = "convert"
  /\ call' = [call EXCEPT !.pc = "load",
                          !.addrC = convertAddressDNS64(call.addrC, nat64Prefix),
                          !.seen = Append(@, nat64Prefix)]
  /\ UNCHANGED <<variant, probed, lookers, crashed, slots, stored, reset, obs, nat64Prefix, refresher, holder,
                 now, tr>>

\* DialContext: dialer := dial.Load().(func ...)
Load ==
  /\ ~crashed /\ call.pc = "load"
  /\ IF Loaded("dial") = Nil
     THEN /\ crashed' = TRUE
          /\ call' = [call EXCEPT !.pc = "panicked"]
     ELSE /\ crashed' = FALSE
          /\ call' = [call EXCEPT !.pc = "attempt", !.dialer = Loaded("dial"),
                                  !.loaded = Append(@, Loaded("dial"))]
  /\ UNCHANGED <<variant, probed, lookers, slots, stored, reset, obs, nat64Prefix, refresher, holder, now, tr>>

\* the call has returned o to its caller
Done(c, o) == [c EXCEPT !.pc = "done", !.result = o]

\* a DialTimeout that returns without cancel()
Cancel_forgotten(c) == c

\* DialTimeout's cancel(): the context cancelled, and how many invocations of
\* the dial function had returned by then
Cancel(c) == [c EXCEPT !.cancels = Append(@, [ctx |-> c.ctx, at |-> Len(c.log)])]

\* a layer that calls again after any error
Retry_anyError(try, err) == variant = "lazy" /\ try = 1 /\ err # NoErr

\* should this layer call again, having got err from its first call
Retry(try, err) == variant = "lazy" /\ try = 1 /\ isNetworkUnreachable(err)

\* DialContext returns o: what DialTimeout, and then Dial, do with it (the
\* wrapper's DialTimeout: the deferred cancel(), and o is returned)
AfterDialContext(c, o) ==
  IF c.entry = "DialContext" THEN Done(c, o)
  ELSE IF c.entry \in WrapperEntries THEN Done(Cancel(c), o)
  ELSE IF Retry(c.tryT, o.err) THEN [c EXCEPT !.pc = "reconvertT"]
  ELSE IF c.entry = "DialTimeout" THEN Done(Cancel(c), o)
  ELSE IF Retry(c.tryD, o.err) THEN [Cancel(c) EXCEPT !.pc = "reconvertD"]
  ELSE Done(Cancel(c), o)

\* a DialContext that dials the address its caller passed
DialTarget_untranslated(c) == c.arg

\* the address DialContext hands to the dial function
DialTarget(c) == c.addrC

\* DialContext: conn, err := dialer(ctx, network, addr), and what follows
\* until shared state is touched again
Attempt(o) ==
  /\ ~crashed /\ call.pc = "attempt"
  /\ LET c == [call EXCEPT !.log = Append(@, [impl |-> call.dialer, ctx |-> call.ctx,
                                              network |-> call.network,
                                              addr |-> DialTarget(call),
                                              cached |-> CachedPrefix]),
                           !.outs = Append(@, o)]
     IN  call' = IF c.entry \in Entries /\ Retry(c.tryC, o.err)
                 THEN [c EXCEPT !.pc = "reconvertC"]
                 ELSE AfterDialContext(c, o)
  /\ UNCHANGED <<variant, probed, lookers, crashed, slots, stored, reset, obs, nat64Prefix, refresher, holder,
                 now, tr>>

\* revision "lazy": addr = convertAddressDNS64(addr) after an unreachable
\* error, in DialContext (line 105), DialTimeout (line 90) or Dial (line 73),
\* followed by that function's second call
Reconvert(lk) ==
  /\ ~crashed /\ call.pc \in {"reconvertC", "reconvertT", "reconvertD"}
  /\ LET from == IF call.pc = "reconvertC" THEN call.addrC
                 ELSE IF call.pc = "reconvertT" THEN call.addrT ELSE call.addrD
         r    == convertAddressDNS64_lazy(from, holder, now, lk)
         c    == [call EXCEPT !.seen = Append(@, r.prefix),
                              !.lookups = @ + (IF r.looked THEN 1 ELSE 0)]
     IN  /\ holder' = r.holder
         /\ crashed' = r.panic
         /\ call' =
              IF r.panic THEN [c EXCEPT !.pc = "panicked"]
              ELSE IF call.pc = "reconvertC"
              THEN [c EXCEPT !.pc = "attempt", !.addrC = r.addr, !.tryC = 2]
              ELSE IF call.pc = "reconvertT"
              THEN [c EXCEPT !.pc = "load", !.addrT = r.addr, !.tryT = 2,
                             !.addrC = r.addr, !.tryC = 1]
              ELSE [c EXCEPT !.pc = "load", !.addrD = r.addr, !.tryD = 2,
                             !.addrT = r.addr, !.tryT = 1, !.addrC = r.addr, !.tryC = 1,
                             !.ctx = c.nctx + 1, !.nctx = c.nctx + 1]
  /\ UNCHANGED <<variant, probed, lookers, slots, stored, reset, obs, nat64Prefix, refresher, now, tr>>

(***************************************************************************)
(* The prefix cache over time.                                             *)
(***************************************************************************)
MaxClock == 1

\* revision "lazy": an hour passes
Tick ==
  /\ ~crashed /\ variant = "lazy" /\ now < MaxClock
  /\ now' = now + 1
  /\ UNCHANGED <<variant, probed, lookers, crashed, slots, stored, reset, obs, nat64Prefix, refresher, holder,
                 call, tr>>

\* revision "fresh", keepNAT64PrefixFresh: the sleep ends and
\* updateNAT64Prefix starts its lookup
StartProbe ==
  /\ ~crashed /\ variant = "fresh" /\ refresher = "sleep"
  /\ refresher' = "lookup"
  /\ UNCHANGED <<variant, probed, lookers, crashed, slots, stored, reset, obs, nat64Prefix, holder, now, call,
                 tr>>

\* revision "fresh", updateNAT64Prefix: the lookup returns lk and the prefix
\* is stored; with no prefix found it is Store(nil), which panics
FinishProbe(lk) ==
  /\ ~crashed /\ variant = "fresh" /\ refresher = "lookup"
  /\ IF ProbePrefix(lk) # NoPrefix
     THEN /\ nat64Prefix' = ProbePrefix(lk)
          /\ refresher' = "sleep"
          /\ crashed' = FALSE
     ELSE /\ nat64Prefix' = nat64Prefix
          /\ refresher' = "panicked"
          /\ crashed' = TRUE
  /\ probed' = [done |-> TRUE, lk |-> lk]
  /\ UNCHANGED <<variant, lookers, slots, stored, reset, obs, holder, now, call, tr>>

\* convertAddressDNS64 applied to addr in the current state
TranslateCall(addr, lk) ==
  /\ ~crashed
  /\ IF variant = "fresh"
     THEN /\ tr' = [called |-> TRUE, in |-> addr, panic |-> FALSE,
                    out |-> convertAddressDNS64(addr, nat64Prefix),
                    cached |-> CachedPrefix, looked |-> FALSE, lk |-> NoLookup,
                    wrote |-> FALSE]
          /\ UNCHANGED <<holder, crashed>>
     ELSE LET r == convertAddressDNS64_lazy(addr, holder, now, lk)
          IN  /\ tr' = [called |-> TRUE, in |-> addr, panic |-> r.panic, out |-> r.addr,
                        cached |-> CachedPrefix, looked |-> r.looked,
                        lk |-> IF r.looked THEN lk ELSE NoLookup,
                        wrote |-> r.holder # holder]
              /\ holder' = r.holder
              /\ crashed' = r.panic
  /\ UNCHANGED <<variant, probed, lookers, slots, stored, reset, obs, nat64Prefix, refresher, now, call>>

(***************************************************************************)
(* getNAT64Prefix called from several goroutines at once.                  *)
(***************************************************************************)
\* the goroutines that are inside Dial, DialTimeout or DialContext together
Callers == {"g1", "g2"}

\* pc: "idle", "lookup" (inside net.LookupIP) or "returned"; got: the prefix
\* getNAT64Prefix returned; looked: whether that call looked up
IdleLooker == [pc |-> "idle", got |-> NoPrefix, looked |-> FALSE]

\* a getNAT64Prefix that leaves the lookup to the goroutine already in it
MustLookup_single(g) ==
  /\ variant = "lazy" /\ ~(holder.set /\ now < holder.expiration)
  /\ \A h \in Callers : lookers[h].pc # "lookup"

\* a getNAT64Prefix that looks up in either revision when nothing is held
MustLookup_anyRevision(g) == ~(holder.set /\ now < holder.expiration)

\* getNAT64Prefix, lines 33-38: does the call of g go on to net.LookupIP
MustLookup(g) == variant = "lazy" /\ ~(holder.set /\ now < holder.expiration)

\* g calls getNAT64Prefix: it returns what is cached, or starts a lookup
GetPrefix(g) ==
  /\ ~crashed /\ lookers[g].pc # "lookup"
  /\ lookers' = [lookers EXCEPT ![g] =
                   IF MustLookup(g) THEN [pc |-> "lookup", got |-> NoPrefix, looked |-> TRUE]
                   ELSE [pc |-> "returned", got |-> CachedPrefix, looked |-> FALSE]]
  /\ UNCHANGED <<variant, probed, crashed, slots, stored, reset, obs, nat64Prefix, refresher, holder,
                 now, call, tr>>

\* the lookup of g returns lk: lines 39-48, the prefix found is stored and
\* returned, nil is returned when there is none
LookupReturns(g, lk) ==
  /\ ~crashed /\ lookers[g].pc = "lookup"
  /\ lookers' = [lookers EXCEPT ![g] = [pc |-> "returned", got |-> ProbePrefix(lk),
                                        looked |-> TRUE]]
  /\ holder' = IF ProbePrefix(lk) # NoPrefix
               THEN [set |-> TRUE, prefix |-> ProbePrefix(lk), expiration |-> now + 1]
               ELSE holder
  /\ UNCHANGED <<variant, probed, crashed, slots, stored, reset, obs, nat64Prefix, refresher, now,
                 call, tr>>

(***************************************************************************)
(* Specifications.                                                         *)
(***************************************************************************)
\* package initialisation has begun: nothing is stored yet, init is about to
\* run Reset (and, in revision "fresh", has started keepNAT64PrefixFresh)
Init ==
  /\ variant \in Variants
  /\ crashed = FALSE
  /\ slots = [op \in OpSet |-> Nil]
  /\ stored = [op \in OpSet |-> {}]
  /\ reset = [pc |-> 1, by |-> "init", done |-> {}, over |-> {}]
  /\ obs = NoObs
  /\ nat64Prefix = NoPrefix
  /\ refresher = "sleep"
  /\ holder = NoHolder
  /\ now = 0
  /\ call = IdleCall
  /\ tr = NoTr
  /\ lookers = [g \in Callers |-> IdleLooker]
  /\ probed = NoProbe

DialAddrs ==
  {HostPort(V4Text(93, 184, 216, 34), 80), <<W("example"), P("."), W("com"), P(":"), N(80)>>}

DialLookups ==
  {[err |-> TRUE, ips |-> <<>>], [err |-> FALSE, ips |-> <<ProbeV4, WellKnownPrefix \o ProbeV4>>]}

DialOutcomes == {o \in Outcomes : o.err # ErrNoNetwork}

ResolveArg == <<W("localhost"), P(":"), N(999)>>

\* the dial path and the prefix cache, and the resolvers beside them
Next ==
  \/ ResetStep
  \/ \E e \in Entries, a \in DialAddrs : Call(e, "tcp", a)
  \/ Convert
  \/ Load
  \/ \E o \in DialOutcomes : Attempt(o)
  \/ \E lk \in DialLookups : Reconvert(lk)
  \/ \E op \in {"resolveTCPAddr", "resolveUDPAddr"}, o \in DialOutcomes :
       Accessor(op, "tcp", ResolveArg, o)
  \/ Tick
  \/ StartProbe
  \/ \E lk \in DialLookups : FinishProbe(lk)

Spec == Init /\ [][Next]_vars

\* the dial path with the dial slot overridden and reset under it
NextOverride ==
  \/ Override("dial")
  \/ ResetBegin
  \/ ResetStep
  \/ \E e \in Entries : Call(e, "tcp", HostPort(V4Text(93, 184, 216, 34), 80))
  \/ Convert
  \/ Load
  \/ \E o \in {x \in Outcomes : x.err \in {NoErr, ErrUnreachable}} : Attempt(o)
  \/ Reconvert([err |-> TRUE, ips |-> <<>>])

SpecOverride == Init /\ [][NextOverride]_vars

\* the registry: every slot overridden, reset and read
NextRegistry ==
  \/ \E op \in OpSet : Override(op)
  \/ ResetBegin
  \/ ResetStep
  \/ \E op \in OpSet \ {"dial"} : Accessor(op, "udp", ResolveArg, [conn |-> "conn", err |-> NoErr])
  \/ Call("DialContext", "tcp", HostPort(V4Text(93, 184, 216, 34), 80))
  \/ Convert
  \/ Load
  \/ Attempt([conn |-> "conn", err |-> NoErr])

SpecRegistry == Init /\ [][NextRegistry]_vars

\* convertAddressDNS64 on every sample address, in every state of the cache
NextTranslate ==
  \/ \E a \in Addrs, lk \in LookupResults : TranslateCall(a, lk)
  \/ Tick
  \/ StartProbe
  \/ \E lk \in LookupResults : FinishProbe(lk)

SpecTranslate == Init /\ [][NextTranslate]_vars

\* the probes: the refresher, and the callers that look up for themselves
NextProbes ==
  \/ \E g \in Callers : GetPrefix(g)
  \/ \E g \in Callers, lk \in LookupResults : LookupReturns(g, lk)
  \/ Tick
  \/ StartProbe
  \/ \E lk \in LookupResults : FinishProbe(lk)

SpecProbes == Init /\ [][NextProbes]_vars

\* Dial and DialTimeout, of the package and of a wrapped dialer
NextDialers ==
  \/ ResetStep
  \/ \E e \in Entries, a \in DialAddrs : Call(e, "tcp", a)
  \/ \E e \in WrapperEntries, a \in DialAddrs : WrapperCall(e, "tcp", a)
  \/ Convert
  \/ Load
  \/ \E o \in DialOutcomes : Attempt(o)
  \/ \E lk \in DialLookups : Reconvert(lk)

SpecDialers == Init /\ [][NextDialers]_vars

\* the accessors that only dispatch, with their slots overridden and a
\* prefix cached, and the default resolvers on localhost
NextAccessors ==
  \/ ResetStep
  \/ \E op \in OpSet \ {"dial"} : Override(op)
  \/ \E op \in OpSet \ {"dial"} :
       Accessor(op, "udp", HostPort(V4Text(93, 184, 216, 34), 80), [conn |-> "conn", err |-> NoErr])
  \/ \E op \in {"resolveTCPAddr", "resolveUDPAddr"} :
       \E network \in ResolveNetworks(op), answer \in LocalhostAnswers :
         ResolveDefault(op, network, ResolveArg, answer)
  \/ StartProbe
  \/ \E lk \in DialLookups : FinishProbe(lk)

SpecAccessors == Init /\ [][NextAccessors]_vars

(***************************************************************************)
(* Properties of convertAddressDNS64 (under SpecTranslate).                *)
(***************************************************************************)
HostOf(a) == SplitHostPort(a).host

PortOf(a) == SplitHostPort(a).port

\* a is host:port with an IPv4 literal for host
IsV4Addr(a) == ~SplitHostPort(a).err /\ IsDottedQuad(HostOf(a))

V4Bytes(a) == <<HostOf(a)[1].n, HostOf(a)[3].n, HostOf(a)[5].n, HostOf(a)[7].n>>

\* RFC 1918, loopback and link-local
IsPrivateV4(b) ==
  \/ b[1] = 10
  \/ b[1] = 172 /\ b[2] \in 16..31
  \/ b[1] = 192 /\ b[2] = 168
  \/ b[1] = 127
  \/ b[1] = 169 /\ b[2] = 254

IsPublicV4Addr(a) == IsV4Addr(a) /\ ~IsPrivateV4(V4Bytes(a))

IsPrivateV4Addr(a) == IsV4Addr(a) /\ IsPrivateV4(V4Bytes(a))

\* a is [host]:port with an IPv6 literal for host
IsV6Addr(a) ==
  /\ ~SplitHostPort(a).err
  /\ Positions(HostOf(a), Colons) # {}
  /\ ParseIP(HostOf(a)) # NoIP

\* a is host:port with a host that is no IP literal
IsNameAddr(a) == ~SplitHostPort(a).err /\ ParseIP(HostOf(a)) = NoIP

\* out is host:port with the IPv6 address prefix ++ v4 for host and the port of a
Synthesized(out, prefix, a) ==
  /\ ~SplitHostPort(out).err
  /\ PortOf(out) = PortOf(a)
  /\ Len(ParseIP(HostOf(out))) = 16
  /\ SubSeq(ParseIP(HostOf(out)), 1, 12) = prefix
  /\ SubSeq(ParseIP(HostOf(out)), 13, 16) = V4Bytes(a)

IsValidPrefix(p) == Len(p) = 12 /\ ~isZeros(p)

\* the lookup lk yields no prefix: it fails, or every address is IPv4
YieldsNoPrefix(lk) == lk.err \/ \A i \in Idx(lk.ips) : To4(lk.ips[i]) # NoIP

\* C2 as stated: a public IPv4 address is synthesized with the cached prefix
\* (top 96 bits the prefix, low 32 bits the IPv4 address, same port) when a
\* non-zero prefix is cached, and returned unchanged when none is cached.
C2_TranslateAsStated ==
  (tr.called /\ IsPublicV4Addr(tr.in)) =>
    /\ ~tr.panic
    /\ IsValidPrefix(tr.cached) => Synthesized(tr.out, tr.cached, tr.in)
    /\ tr.cached = NoPrefix => tr.out = tr.in

\* C2, amended: as stated when a non-zero prefix is cached; when none is
\* cached, revision "fresh" returns the address unchanged, while revision
\* "lazy" looks the prefix up and returns the address unchanged only if the
\* lookup yields none, and synthesizes with the prefix found otherwise.
C2_Translate ==
  (tr.called /\ IsPublicV4Addr(tr.in)) =>
    /\ ~tr.panic
    /\ IsValidPrefix(tr.cached) => Synthesized(tr.out, tr.cached, tr.in)
    /\ (tr.cached = NoPrefix /\ variant = "fresh") => tr.out = tr.in
    /\ (tr.cached = NoPrefix /\ variant = "lazy") =>
         /\ tr.looked
         /\ IF YieldsNoPrefix(tr.lk) THEN tr.out = tr.in
            ELSE \E i \in Idx(tr.lk.ips) :
                   /\ To4(tr.lk.ips[i]) = NoIP
                   /\ Synthesized(tr.out, SubSeq(tr.lk.ips[i], 1, 12), tr.in)

\* C2's case: 93.184.216.34:80 under 64:ff9b::/96 became [64:ff9b::5db8:d822]:80
C2_Witness ==
  /\ tr.called
  /\ tr.in = HostPort(V4Text(93, 184, 216, 34), 80)
  /\ tr.cached = WellKnownPrefix
  /\ tr.out = Bracketed(<<N(100), P(":"), N(65435), P("::"), N(23992), P(":"), N(55330)>>, 80)

\* C8, for revision "fresh" with a valid prefix cached: an address with a
\* private or reserved IPv4 literal for host is returned unchanged.
C8_PrivateUnchanged ==
  (tr.called /\ variant = "fresh" /\ IsValidPrefix(tr.cached) /\ IsPrivateV4Addr(tr.in)) =>
    tr.out = tr.in

\* C9, for revision "fresh" with a valid prefix cached: an address with an
\* IPv6 literal for host, in any textual form, is returned unchanged.
C9_IPv6Unchanged ==
  (tr.called /\ variant = "fresh" /\ IsValidPrefix(tr.cached) /\ IsV6Addr(tr.in)) =>
    tr.out = tr.in

\* C10, for host names: convertAddressDNS64 does not panic on an address whose
\* host is no IP literal, and returns it unchanged, also with a prefix cached.
C10_NameFailOpen ==
  (tr.called /\ IsNameAddr(tr.in)) => (~tr.panic /\ tr.out = tr.in)

(***************************************************************************)
(* Properties of the registry (under SpecRegistry).                        *)
(***************************************************************************)
\* C1: once the package is initialised no slot is empty, and every load, by
\* DialContext and by the other accessors alike, yields a function that was
\* stored into that slot before; no accessor panics on a nil slot.
C1_NeverUnset ==
  /\ ~crashed
  /\ Initialized => \A op \in OpSet : slots[op] # Nil
  /\ obs.op # "none" => (obs.impl # Nil /\ obs.impl \in stored[obs.op])
  /\ call.pc # "panicked"
  /\ \A i \in Idx(call.loaded) : call.loaded[i] # Nil /\ call.loaded[i] \in stored["dial"]

\* C1's case: accessors have loaded from slots overridden before and being
\* reset at that moment
C1_Witness ==
  /\ reset.by = "user" /\ reset.pc = 3
  /\ obs.op = "resolveUDPAddr" /\ obs.impl = Custom
  /\ call.loaded = <<Default>> /\ stored["dial"] = {Default, Custom}

\* C6 as stated: no state, during or after a Reset, in which that Reset has
\* restored one slot to its default while another slot still holds the
\* (other) function it held when that Reset began.
C6_ResetAtomicAsStated ==
  ~ /\ reset.by = "user" /\ reset.pc > 0
    /\ \E i \in reset.done : slots[i] = Default
    /\ \E j \in OpSet \ (reset.done \cup reset.over) : slots[j] # Default

\* C6, amended: Reset stores the defaults slot by slot, in the order dial,
\* dialUDP, listenUDP, resolveTCPAddr, resolveUDPAddr; every slot it has
\* stored holds its default unless an Override stored into it since, and
\* when Reset has returned that is so of all five slots.
C6_ResetSlotBySlot ==
  /\ reset.pc > 0 => reset.done = {Ops[k] : k \in 1..(reset.pc - 1)}
  /\ (Initialized /\ reset.pc = 0) => reset.done = OpSet
  /\ \A op \in reset.done \ reset.over : slots[op] = Default
  /\ \A op \in reset.over : slots[op] # Nil

\* C6's case: a Reset has returned after every slot had been overridden, and
\* every slot holds its default
C6_Witness ==
  /\ reset.by = "user" /\ reset.pc = 0 /\ reset.over = {}
  /\ \A op \in OpSet : stored[op] = {Default, Custom} /\ slots[op] = Default

(***************************************************************************)
(* Properties of the dial path (under Spec and SpecOverride).              *)
(***************************************************************************)
Example == HostPort(V4Text(93, 184, 216, 34), 80)

ExampleSynthesized ==
  Bracketed(<<N(100), P(":"), N(65435), P("::"), N(23992), P(":"), N(55330)>>, 80)

\* the context the caller's DialContext runs under: the caller's own, or the
\* first one DialTimeout derived
FirstCtx == IF call.entry = "DialContext" THEN 0 ELSE 1

\* the address a translation of a under prefix p must give
TranslatedAs(out, p, a) ==
  /\ p = NoPrefix => out = a
  /\ (IsValidPrefix(p) /\ IsPublicV4Addr(a)) => Synthesized(out, p, a)
  /\ (p = WellKnownPrefix /\ a = Example) => out = ExampleSynthesized

\* C3 as stated: the first invocation of the dial function receives the
\* context, the network and the translation of addr under the prefix cached:
\* addr itself when none is cached, the synthesized address when one is.
C3_TranslatesBeforeFirstAttempt ==
  call.log # <<>> =>
    /\ call.log[1].ctx = FirstCtx /\ call.log[1].network = call.network
    /\ TranslatedAs(call.log[1].addr,
                    IF variant = "fresh" THEN call.seen[1] ELSE call.log[1].cached, call.arg)

\* C3, amended: in revision "fresh" as stated; in revision "lazy" the first
\* invocation receives addr unmodified, whatever is cached, and it is the
\* second invocation, made after an unreachable error, that receives the
\* translation of addr.
C3_DialContextTranslation ==
  /\ call.log # <<>> =>
       /\ call.log[1].ctx = FirstCtx /\ call.log[1].network = call.network
       /\ variant = "fresh" =>
            /\ call.seen # <<>>
            /\ TranslatedAs(call.log[1].addr, call.seen[1], call.arg)
       /\ variant = "lazy" => call.log[1].addr = call.arg
  /\ (variant = "lazy" /\ Len(call.log) >= 2) =>
       /\ call.seen # <<>>
       /\ isNetworkUnreachable(call.outs[1].err)
       /\ call.log[2].ctx = FirstCtx /\ call.log[2].network = call.network
       /\ TranslatedAs(call.log[2].addr, call.seen[1], call.arg)

\* C3's case: with 64:ff9b::/96 cached, DialContext("tcp", "93.184.216.34:80")
\* has returned after dialing [64:ff9b::5db8:d822]:80 first
C3_Witness ==
  /\ variant = "fresh" /\ call.pc = "done" /\ call.entry = "DialContext"
  /\ call.arg = Example /\ call.seen = <<WellKnownPrefix>>
  /\ Len(call.log) = 1 /\ call.log[1].addr = ExampleSynthesized

\* C4: one call of Dial, DialTimeout or DialContext invokes the dial function
\* at most twice, and a second time only after the first invocation failed
\* with a network-unreachable error.
C4_AtMostTwoAttempts ==
  /\ Len(call.log) <= 2
  /\ Len(call.log) = 2 => isNetworkUnreachable(call.outs[1].err)

\* C5: when the first invocation succeeds, or fails with an error that is not
\* network-unreachable, it is the only one and the call returns exactly what
\* it returned; Resolve and ResolveUDPAddr return what their function returned.
C5_ReturnsVerbatim ==
  /\ (call.outs # <<>> /\ ~isNetworkUnreachable(call.outs[1].err)) =>
       /\ Len(call.log) = 1
       /\ call.pc = "done"
       /\ call.result = call.outs[1]
  /\ obs.op \in {"resolveTCPAddr", "resolveUDPAddr"} => obs.ret = obs.got

\* C5's case: a Dial whose first invocation failed with "connection refused"
\* has returned, and a Resolve has returned its function's error
C5_Witness ==
  /\ variant = "lazy" /\ call.pc = "done" /\ call.entry = "Dial"
  /\ call.outs = <<[conn |-> NoConn, err |-> ErrRefused]>>
  /\ call.result = [conn |-> NoConn, err |-> ErrRefused]
  /\ obs.op = "resolveTCPAddr" /\ obs.ret = [conn |-> NoConn, err |-> ErrRefused]

\* C7: every invocation a call makes is of the dial function that the call
\* loaded when it was dispatched, whatever OverrideDial or Reset stored since.
C7_KeepsCapturedDialer ==
  \A i \in Idx(call.log) : call.log[i].impl = call.loaded[1]

(***************************************************************************)
(* Properties of the prefix cache (under SpecTranslate).                   *)
(***************************************************************************)
\* C11: the cached prefix is absent or 12 bytes that are not all zero, and an
\* address whose twelve leading bytes are zero, selected by the probe, leaves
\* the cache absent: nothing is translated with the all-zero prefix.
C11_PrefixNeverZero ==
  /\ CachedPrefix = NoPrefix \/ IsValidPrefix(CachedPrefix)
  /\ (tr.called /\ Len(tr.cached) = 12 /\ isZeros(tr.cached)) => tr.out = tr.in

\* C12 as stated: reading the cached prefix on the dial path performs no
\* lookup and stores nothing; the conversion uses the prefix that is cached.
C12_ReadNeverLooksUp ==
  tr.called => (~tr.looked /\ ~tr.wrote)

\* C12, amended: in revision "fresh" getNAT64Prefix performs no lookup and
\* stores nothing; in revision "lazy" it does so only while an unexpired
\* prefix is held, and otherwise looks ipv4only.arpa up inside the call and,
\* when the lookup yields a prefix, stores it with an expiration one hour on.
C12_ReadLooksUpWhenStale ==
  tr.called =>
    /\ variant = "fresh" => (~tr.looked /\ ~tr.wrote)
    /\ variant = "lazy" =>
         /\ tr.looked <=> (tr.cached = NoPrefix)
         /\ tr.wrote <=> (tr.looked /\ ~YieldsNoPrefix(tr.lk))
         /\ tr.wrote => holder.set
         /\ holder.set => (Len(holder.prefix) = 12 /\ holder.expiration <= now + 1)

\* C12's case: the held prefix has expired, and a conversion looked the
\* prefix up again and stored what it found
C12_Witness ==
  /\ variant = "lazy" /\ now = 1 /\ tr.called /\ tr.looked /\ tr.wrote
  /\ holder.prefix = WellKnownPrefix /\ holder.expiration = 2

(***************************************************************************)
(* Properties of refreshing (under Spec).                                  *)
(***************************************************************************)
Last(s) == s[Len(s)]

\* an invocation of the dial function returns in this step
AttemptReturns == Len(call'.outs) = Len(call.outs) + 1

Reconverting == {"reconvertC", "reconvertT", "reconvertD"}

\* C13 as stated: when an invocation of the dial function fails with a
\* network-unreachable error the refresher is asked to probe, and with any
\* other error, or a success, it is left as it was; no lookup is made inside
\* the dial call.
C13_UnreachableRequestsRefresh ==
  /\ [](call.lookups = 0)
  /\ [][AttemptReturns =>
          IF isNetworkUnreachable(Last(call'.outs).err) THEN refresher' = "lookup"
          ELSE refresher' = refresher]_vars

\* C13, amended: no outcome of a dial attempt asks for a refresh.  In revision
\* "fresh" the attempt leaves the refresher and the cache as they are and the
\* dial call never looks up.  In revision "lazy" a lookup is made inside the
\* dial call, by the conversion that follows a network-unreachable error, when
\* no unexpired prefix is held, and at no other moment.
C13_NoRefreshRequest ==
  /\ [](variant = "fresh" => call.lookups = 0)
  /\ [][AttemptReturns => UNCHANGED <<refresher, nat64Prefix, holder>>]_vars
  /\ [][call'.lookups > call.lookups =>
          /\ variant = "lazy" /\ call.pc \in Reconverting
          /\ isNetworkUnreachable(Last(call.outs).err)
          /\ CachedPrefix = NoPrefix]_vars
  /\ [][(call.pc \in Reconverting /\ call' # call) =>
          call'.lookups = call.lookups + (IF CachedPrefix = NoPrefix THEN 1 ELSE 0)]_vars

\* C13's case: a DialContext whose first attempt failed with a network-
\* unreachable error has returned; it looked the prefix up itself, and the
\* refresher was not asked to probe
C13_Witness ==
  /\ variant = "lazy" /\ call.pc = "done" /\ call.entry = "DialContext"
  /\ Len(call.outs) = 2 /\ isNetworkUnreachable(call.outs[1].err)
  /\ call.lookups = 1 /\ refresher = "sleep"

(***************************************************************************)
(* Properties of the probes (under SpecProbes).                            *)
(***************************************************************************)
\* the lookups of ipv4only.arpa that are under way
InFlight ==
  {g \in Callers : lookers[g].pc = "lookup"} \cup
  (IF refresher = "lookup" THEN {"refresher"} ELSE {})

\* C14 as stated: at most one refresh is pending or in flight at any time, so
\* callers that ask while one is in flight do not start another.
C14_OneRefreshInFlight == Cardinality(InFlight) <= 1

\* C14, amended: nothing is debounced.  In revision "fresh" the probes are
\* those of the refresher alone, one at a time, and callers never look up.
\* In revision "lazy" every caller that finds no unexpired prefix looks up for
\* itself, whatever lookups are in flight: a call returns without a lookup
\* only with the prefix that was held.
C14_ProbesNotCoalesced ==
  /\ variant = "fresh" =>
       /\ InFlight \subseteq {"refresher"}
       /\ \A g \in Callers : ~lookers[g].looked
  /\ variant = "lazy" =>
       /\ refresher = "sleep"
       /\ \A g \in Callers :
            (lookers[g].pc = "returned" /\ ~lookers[g].looked) =>
              (lookers[g].got # NoPrefix /\ holder.set)

\* C14's case: two callers are inside the lookup at the same time
C14_Witness ==
  /\ variant = "lazy" /\ InFlight = Callers

(***************************************************************************)
(* Properties of Dial and DialTimeout (under SpecDialers).                 *)
(***************************************************************************)
\* C15: Dial does what one DialTimeout does: every invocation it causes is
\* made under the one context of that DialTimeout, and Dial calls nothing
\* again itself; so too the Dial of a wrapped dialer.
C15_DialIsDialTimeout ==
  call.entry \in {"Dial", "wrapper.Dial"} =>
    /\ call.nctx = 1 /\ call.tryD = 1
    /\ \A i \in Idx(call.log) : call.log[i].ctx = 1
    /\ call.pc = "done" => call.result = Last(call.outs)

\* the contexts cancelled so far
Cancelled == {call.cancels[k].ctx : k \in Idx(call.cancels)}

C17_PassThroughOnly ==
  [][obs' # obs =>
       /\ obs'.op \in OpSet \ {"dial"}
       /\ obs'.impl = slots[obs'.op]
       /\ obs'.passed = obs'.arg /\ obs'.ret = obs'.got
       /\ UNCHANGED <<slots, nat64Prefix, holder, refresher, lookers, probed>>]_vars

\* C17's case: with 64:ff9b::/96 cached and resolveTCPAddr overridden, Resolve
\* handed 93.184.216.34:80 to the overriding function as it was
C17_Witness ==
  /\ nat64Prefix = WellKnownPrefix
  /\ obs.op = "resolveTCPAddr" /\ obs.impl = Custom
  /\ obs.arg = Example /\ obs.passed = Example

\* C18: with the resolvers of Reset installed, localhost:999 resolves to an
\* IPv4 address under tcp and udp and to an IPv6 address under tcp6 and udp6,
\* in whichever order the system resolver lists the addresses.
C18_LocalhostFamily ==
  (obs.impl = Default /\ obs.arg = ResolveArg /\ obs.answer \in LocalhostAnswers) =>
    /\ obs.ret.err = NoErr
    /\ obs.network \in {"tcp", "udp"} => To4(ResolvedIP(obs.ret.conn)) # NoIP
    /\ obs.network \in {"tcp6", "udp6"} =>
         (Len(ResolvedIP(obs.ret.conn)) = 16 /\ To4(ResolvedIP(obs.ret.conn)) = NoIP)

\* C18's case: the resolver listed ::1 first and Resolve("tcp", "localhost:999")
\* returned 127.0.0.1
C18_Witness ==
  /\ obs.op = "resolveTCPAddr" /\ obs.network = "tcp" /\ obs.arg = ResolveArg
  /\ obs.answer = <<"::1", "127.0.0.1">> /\ obs.ret.conn = "127.0.0.1"

\* C19: a discovery probe that fails (the lookup returns an error, or no
\* address that is not IPv4) ends neither the process nor the refresh task:
\* the probe has completed, the task is back in its sleep, and no prefix is
\* cached afterwards.
C19_ProbeFailureSurvives ==
  (variant = "fresh" /\ probed.done /\ YieldsNoPrefix(probed.lk)) =>
    /\ ~crashed
    /\ refresher \in {"sleep", "lookup"}
    /\ nat64Prefix = NoPrefix

\* the first address of lk, in the order returned, that is not IPv4
FirstNotV4(lk) ==
  lk.ips[CHOOSE i \in Idx(lk.ips) :
           /\ To4(lk.ips[i]) = NoIP
           /\ \A j \in 1..(i - 1) : To4(lk.ips[j]) # NoIP]

Take12(ip) == [k \in 1..12 |-> ip[k]]

\* C20: after a successful probe the cached prefix is the first 12 bytes of
\* the first address of the answer that is not IPv4 (the refresher's probe
\* in revision "fresh", the caller's own lookup in revision "lazy"), and
\* every change of the cache puts a whole prefix of the answer in place of
\* the old one: a reader finds no prefix or 12 bytes of one answer.
C20_FirstNonIPv4Prefix ==
  /\ [](/\ (variant = "fresh" /\ probed.done /\ ~YieldsNoPrefix(probed.lk)) =>
            nat64Prefix = Take12(FirstNotV4(probed.lk))
        /\ (variant = "lazy" /\ tr.looked /\ ~YieldsNoPrefix(tr.lk)) =>
            (holder.set /\ holder.prefix = Take12(FirstNotV4(tr.lk)))
        /\ tr.called => (tr.cached = NoPrefix \/ Len(tr.cached) = 12))
  /\ [][nat64Prefix' # nat64Prefix =>
          /\ probed'.done /\ ~YieldsNoPrefix(probed'.lk)
          /\ nat64Prefix' = Take12(FirstNotV4(probed'.lk))]_vars
  /\ [][holder' # holder =>
          /\ tr'.looked /\ ~YieldsNoPrefix(tr'.lk)
          /\ holder'.set /\ holder'.prefix = Take12(FirstNotV4(tr'.lk))]_vars

\* C20's case: a reader translated with 64:ff9b::/96, and then a probe that
\* was answered 2001:db8:64::c000:aa, 64:ff9b::c000:aa put 2001:db8:64::/96
\* in its place
C20_Witness ==
  /\ variant = "fresh" /\ ~crashed
  /\ tr.called /\ tr.cached = WellKnownPrefix
  /\ probed.done /\ probed.lk.ips = <<LocalPrefix \o ProbeV4, WellKnownPrefix \o ProbeV4>>
  /\ nat64Prefix = LocalPrefix

\* C21 as stated: at most one lookup of ipv4only.arpa is executing at any
\* moment, whatever the callers and the refresh task are doing.
C21_AtMostOneProbe == \A a, b \in InFlight : a = b

\* g goes into net.LookupIP in this step
EntersLookup(g) == lookers[g].pc # "lookup" /\ lookers'[g].pc = "lookup"

\* C21, amended: in revision "fresh" the refresh task is the only one that
\* probes, so at most one probe is executing; in revision "lazy" there is no
\* refresh task, and a caller goes into its own probe exactly when no
\* unexpired prefix is held, whoever else is probing, so that the probes
\* executing together are bounded only by the number of callers.
C21_OneProbePerProber ==
  /\ [](variant = "fresh" => InFlight \subseteq {"refresher"})
  /\ [](variant = "lazy" => InFlight \subseteq Callers)
  /\ [](crashed => InFlight = {})
  /\ [][\A g \in Callers :
          /\ EntersLookup(g) =>
               (variant = "lazy" /\ ~(holder.set /\ now < holder.expiration))
          /\ (lookers'[g] # lookers[g] /\ lookers[g].pc # "lookup" /\ variant = "lazy"
                /\ ~(holder.set /\ now < holder.expiration)) => EntersLookup(g)]_vars

\* C21's case: the held prefix has expired and both callers are inside their
\* own lookup of ipv4only.arpa at the same moment
C21_Witness ==
  /\ variant = "lazy" /\ holder.set /\ holder.expiration <= now
  /\ \A g \in Callers : lookers[g].pc = "lookup"

====
